---- MODULE Spec2Model ----
(***************************************************************************)
(* A model of src/cad_desktop.py: the retry wrapper with_backoff, the      *)
(* pipeline execute_ai_plan (planner, aggregator, composer, renderer), the *)
(* calls of the generation service and the window's on_generate.           *)
(*                                                                         *)
(* Text is a sequence of one-character tokens.  A Cyrillic letter is       *)
(* written as a token "ru_x" (lower case) or "RU_X" (upper case), since    *)
(* the module text is ASCII.  An optional value (Python None) is the empty *)
(* sequence <<>>, a present value v is <<v>>.                              *)
(***************************************************************************)
EXTENDS Integers, Sequences, FiniteSets, TLC

VARIABLES
    pc,            \* position of the run: which statement executes next
    USE_MOCK,      \* the module flag of line 25
    topic,         \* argument of execute_ai_plan
    save_folder,   \* argument of execute_ai_plan (optional)
    plan,          \* value returned by gemini_call_generate_plan
    idx,           \* position of the for loop of line 251 in research_steps
    collected,     \* list built by the loop
    image_url,     \* optional URL kept by the loop
    facts_summary, \* list built by the loop
    aggregated,    \* the dict of line 271 (optional)
    article_json,  \* value returned by gemini_call_generate_article (optional)
    wb,            \* frame of the running with_backoff call
    events,        \* invocations and sleeps of the running with_backoff call
    last_call,     \* how the latest with_backoff call ended
    net,           \* the services to which an HTTP request has been issued
    invoked,       \* the stages of the pipeline that have been entered, in order
    files,         \* document files written, in order
    tmpfiles,      \* temporary image files that exist
    filepath,      \* the path of line 285 or 287 (optional)
    document,      \* the elements added to the docx document
    result,        \* what the call returned or raised
    generate_btn,  \* state of the button of line 314
    topic_var,     \* text of the entry of lines 304-305
    workers,       \* the threads started at line 352, in order
    log,           \* lines written by log_write
    messagebox     \* dialogs shown, in order

vars == <<pc, USE_MOCK, topic, save_folder, plan, idx, collected, image_url,
          facts_summary, aggregated, article_json, wb, events, last_call, net,
          invoked,
          files, tmpfiles, filepath, document, result, generate_btn,
          topic_var, workers, log, messagebox>>

shellVars == <<generate_btn, topic_var, workers, log, messagebox>>

(***************************************************************************)
(* Bounds of the model.                                                    *)
(***************************************************************************)
MaxRetriesArg == 5    \* largest max_retries passed to with_backoff on its own
MaxDelayArg == 2      \* largest initial_delay passed to with_backoff on its own
MaxFactorArg == 3     \* largest factor passed to with_backoff on its own
MaxSteps == 2         \* longest plan with arbitrary steps
MaxFactSteps == 7     \* longest plan made of fact-seeking steps only
MaxTitleLen == 2      \* longest article title drawn from TitleChars
MaxItems == 4         \* most items the search service answers with
MaxClicks == 3        \* most calls of on_generate in one session

(***************************************************************************)
(* Program constants.                                                      *)
(***************************************************************************)
MAX_SEARCH_RESULTS == 3
DefaultMaxRetries == 5
DefaultInitialDelay == 1
DefaultFactor == 2
FactsCap == 20

None == <<>>
Some(v) == <<v>>
Truthy(o) == o # None /\ o[1] # ""

(***************************************************************************)
(* Characters and strings.                                                 *)
(***************************************************************************)
AsciiUpper ==
    { "A", "B", "C", "D", "E", "F", "G", "H", "I", "J", "K", "L", "M", "N",
      "O", "P", "Q", "R", "S", "T", "U", "V", "W", "X", "Y", "Z" }
AsciiLower ==
    { "a", "b", "c", "d", "e", "f", "g", "h", "i", "j", "k", "l", "m", "n",
      "o", "p", "q", "r", "s", "t", "u", "v", "w", "x", "y", "z" }
AsciiDigits ==
    { "0", "1", "2", "3", "4", "5", "6", "7", "8", "9" }
CyrillicUpper ==
    { "RU_A", "RU_B", "RU_V", "RU_G", "RU_D", "RU_E", "RU_YO", "RU_ZH",
      "RU_Z", "RU_I", "RU_J", "RU_K", "RU_L", "RU_M", "RU_N", "RU_O",
      "RU_P", "RU_R", "RU_S", "RU_T", "RU_U", "RU_F", "RU_H", "RU_TS",
      "RU_CH", "RU_SH", "RU_SHCH", "RU_HARD", "RU_Y", "RU_SOFT", "RU_EH",
      "RU_YU", "RU_YA" }
CyrillicLower ==
    { "ru_a", "ru_b", "ru_v", "ru_g", "ru_d", "ru_e", "ru_yo", "ru_zh",
      "ru_z", "ru_i", "ru_j", "ru_k", "ru_l", "ru_m", "ru_n", "ru_o",
      "ru_p", "ru_r", "ru_s", "ru_t", "ru_u", "ru_f", "ru_h", "ru_ts",
      "ru_ch", "ru_sh", "ru_shch", "ru_hard", "ru_y", "ru_soft", "ru_eh",
      "ru_yu", "ru_ya" }
OtherDigits == { "ar_3" }    \* ARABIC-INDIC DIGIT THREE

\* each upper-case letter with its lower-case letter
UpperPairs ==
    { <<"A", "a">>, <<"B", "b">>, <<"C", "c">>, <<"D", "d">>, <<"E", "e">>,
      <<"F", "f">>, <<"G", "g">>, <<"H", "h">>, <<"I", "i">>, <<"J", "j">>,
      <<"K", "k">>, <<"L", "l">>, <<"M", "m">>, <<"N", "n">>, <<"O", "o">>,
      <<"P", "p">>, <<"Q", "q">>, <<"R", "r">>, <<"S", "s">>, <<"T", "t">>,
      <<"U", "u">>, <<"V", "v">>, <<"W", "w">>, <<"X", "x">>, <<"Y", "y">>,
      <<"Z", "z">>, <<"RU_A", "ru_a">>, <<"RU_B", "ru_b">>,
      <<"RU_V", "ru_v">>, <<"RU_G", "ru_g">>, <<"RU_D", "ru_d">>,
      <<"RU_E", "ru_e">>, <<"RU_YO", "ru_yo">>, <<"RU_ZH", "ru_zh">>,
      <<"RU_Z", "ru_z">>, <<"RU_I", "ru_i">>, <<"RU_J", "ru_j">>,
      <<"RU_K", "ru_k">>, <<"RU_L", "ru_l">>, <<"RU_M", "ru_m">>,
      <<"RU_N", "ru_n">>, <<"RU_O", "ru_o">>, <<"RU_P", "ru_p">>,
      <<"RU_R", "ru_r">>, <<"RU_S", "ru_s">>, <<"RU_T", "ru_t">>,
      <<"RU_U", "ru_u">>, <<"RU_F", "ru_f">>, <<"RU_H", "ru_h">>,
      <<"RU_TS", "ru_ts">>, <<"RU_CH", "ru_ch">>, <<"RU_SH", "ru_sh">>,
      <<"RU_SHCH", "ru_shch">>, <<"RU_HARD", "ru_hard">>,
      <<"RU_Y", "ru_y">>, <<"RU_SOFT", "ru_soft">>, <<"RU_EH", "ru_eh">>,
      <<"RU_YU", "ru_yu">>, <<"RU_YA", "ru_ya">> }

UpperChars == { p[1] : p \in UpperPairs }

\* str.lower() on one character
LowerChar(c) ==
    IF c \in UpperChars THEN (CHOOSE p \in UpperPairs : p[1] = c)[2] ELSE c

\* str.lower()
Lower(s) == [i \in 1..Len(s) |-> LowerChar(s[i])]

\* sub in s
Contains(s, sub) ==
    \E i \in 0..(Len(s) - Len(sub)) :
        \A j \in 1..Len(sub) : s[i + j] = sub[j]

\* str.isalnum() on one character
IsAlnum(c) ==
    c \in AsciiUpper \cup AsciiLower \cup AsciiDigits \cup CyrillicUpper
           \cup CyrillicLower \cup OtherDigits

Whitespace == { " ", "\n", "\t" }

RECURSIVE LStrip(_)
LStrip(s) == IF s # <<>> /\ Head(s) \in Whitespace THEN LStrip(Tail(s)) ELSE s

RECURSIVE RStrip(_)
RStrip(s) ==
    IF s # <<>> /\ s[Len(s)] \in Whitespace
    THEN RStrip(SubSeq(s, 1, Len(s) - 1))
    ELSE s

\* str.strip()
Strip(s) == RStrip(LStrip(s))

SeqsUpTo(S, n) == UNION { [1..k -> S] : k \in 0..n }

Min(a, b) == IF a < b THEN a ELSE b

\* s[:n]
Take(s, n) == SubSeq(s, 1, Min(n, Len(s)))

(***************************************************************************)
(* with_backoff (lines 28-43).  The frame holds the parameters and the     *)
(* locals delay and attempt.  An event is one invocation of func or one    *)
(* call of time.sleep.                                                     *)
(***************************************************************************)
NoFrame ==
    [max_retries |-> 0, initial_delay |-> 0, factor |-> 0, delay |-> 0,
     attempt |-> 0]

\* line 28: the frame of a call, before line 33 runs
WB_Call(max_retries, initial_delay, factor) ==
    [max_retries |-> max_retries, initial_delay |-> initial_delay,
     factor |-> factor, delay |-> 0, attempt |-> 0]

\* line 34: range(1, max_retries + 1) is empty
WB_NoAttempt(w) == w.max_retries < 1

\* lines 33-34: the frame on entering the first iteration
WB_Enter(w) == [w EXCEPT !.delay = w.initial_delay, !.attempt = 1]

WB_Exhausted_Late(w) == w.attempt > w.max_retries

\* line 39
WB_Exhausted(w) == w.attempt = w.max_retries

WB_NextDelay_Additive(w) == w.delay + w.factor

\* line 42
WB_NextDelay(w) == w.delay * w.factor

WB_Retry_Restart(w) == [w EXCEPT !.delay = WB_NextDelay(w), !.attempt = 1]

\* lines 41-42 and the next iteration of line 34
WB_Retry(w) == [w EXCEPT !.delay = WB_NextDelay(w), !.attempt = w.attempt + 1]

InvokeEvent(w, kind, val) ==
    [ev |-> "invoke", n |-> w.attempt, delay |-> 0, kind |-> kind, val |-> val]
SleepEvent(w) ==
    [ev |-> "sleep", n |-> w.attempt, delay |-> w.delay, kind |-> "sleep", val |-> ""]

\* line 36 returned: the events of the call after a successful invocation
WB_EventsOnReturn(w, val) == Append(events, InvokeEvent(w, "ok", val))

\* lines 37-42: the events of the call after a failed invocation
WB_EventsOnException(w, kind) ==
    IF WB_Exhausted(w)
    THEN Append(events, InvokeEvent(w, kind, ""))
    ELSE Append(Append(events, InvokeEvent(w, kind, "")), SleepEvent(w))

\* an exception: its class, the with_backoff attempt that raised it, its origin
Exc(kind, at, site) == [status |-> "raised", kind |-> kind, at |-> at, val |-> site]
Returned(val) == [status |-> "returned", kind |-> "ok", at |-> 0, val |-> val]
Running == [status |-> "running", kind |-> "", at |-> 0, val |-> ""]

\* the classes of exception an operation raises (all derive from Exception)
ExcKinds == { "ConnectionError", "HTTPError", "ValueError" }

(***************************************************************************)
(* with_backoff on its own: a caller passes any parameters and an          *)
(* operation that returns a value or raises on each invocation.            *)
(***************************************************************************)
OpValues == { "v1", "v2" }

\* no window: CADApp is not instantiated
NoShell ==
    /\ generate_btn = "normal"
    /\ topic_var = <<>>
    /\ workers = <<>>
    /\ log = <<>>
    /\ messagebox = <<>>

Idle ==
    /\ USE_MOCK = FALSE
    /\ topic = <<>>
    /\ save_folder = None
    /\ plan = None
    /\ idx = 0
    /\ collected = <<>>
    /\ image_url = None
    /\ facts_summary = <<>>
    /\ aggregated = None
    /\ article_json = None
    /\ net = {}
    /\ invoked = <<>>
    /\ files = <<>>
    /\ tmpfiles = {}
    /\ filepath = None
    /\ document = <<>>

InitBackoff ==
    /\ pc = "wb_call"
    /\ \E mr \in 0..MaxRetriesArg, d \in 1..MaxDelayArg, f \in 1..MaxFactorArg :
          wb = WB_Call(mr, d, f)
    /\ events = <<>>
    /\ last_call = "none"
    /\ result = Running
    /\ Idle
    /\ NoShell

pipelineVars ==
    <<USE_MOCK, topic, save_folder, plan, idx, collected, image_url,
      facts_summary, aggregated, article_json, net, invoked, files, tmpfiles,
      filepath, document>>

\* lines 33-34 and, for an empty range, line 43 (last_exc is unbound)
BackoffStart ==
    /\ pc = "wb_call"
    /\ IF WB_NoAttempt(wb)
       THEN /\ pc' = "wb_end"
            /\ result' = Exc("UnboundLocalError", 0, "with_backoff")
            /\ wb' = wb
       ELSE /\ pc' = "wb_invoke"
            /\ wb' = WB_Enter(wb)
            /\ result' = result
    /\ UNCHANGED <<events, last_call, pipelineVars>>
    /\ UNCHANGED shellVars

\* line 36: func returns
OpReturns ==
    /\ pc = "wb_invoke"
    /\ \E v \in OpValues :
          /\ events' = WB_EventsOnReturn(wb, v)
          /\ result' = Returned(v)
    /\ pc' = "wb_end"
    /\ last_call' = "returned"
    /\ UNCHANGED <<wb, pipelineVars>>
    /\ UNCHANGED shellVars

\* lines 37-42: func raises
OpRaises ==
    /\ pc = "wb_invoke"
    /\ \E k \in ExcKinds :
          /\ events' = WB_EventsOnException(wb, k)
          /\ IF WB_Exhausted(wb)
             THEN /\ result' = Exc(k, wb.attempt, "func")
                  /\ pc' = "wb_end"
                  /\ last_call' = "raised"
                  /\ wb' = wb
             ELSE /\ result' = result
                  /\ pc' = "wb_invoke"
                  /\ last_call' = last_call
                  /\ wb' = WB_Retry(wb)
    /\ UNCHANGED pipelineVars
    /\ UNCHANGED shellVars

NextBackoff == BackoffStart \/ OpReturns \/ OpRaises

SpecBackoff == InitBackoff /\ [][NextBackoff]_vars

(***************************************************************************)
(* The services' answers.  A step is {"step": n, "query": q}; a plan is    *)
(* {"articleTitle": t, "researchSteps": steps}, the title being optional.  *)
(***************************************************************************)
Step(n, q) == [step |-> n, query |-> q]

PlanOf(title, queries) ==
    [articleTitle |-> title,
     researchSteps |-> [i \in 1..Len(queries) |-> Step(i, queries[i])]]

EmptyQuery == <<>>
FactQuery == <<"b", "i", "o">>
PhotoQuery == <<"RU_F", "ru_o", "ru_t", "ru_o">>
PlanTitle == <<"R", "e", "f", "o", "r", "m", "s", ":", " ", "2", "0", "2", "4", "!", "!">>

\* plans of any steps: without a query, fact-seeking, image-seeking
GeneralPlans ==
    { PlanOf(Some(PlanTitle), qs) :
        qs \in SeqsUpTo({ EmptyQuery, FactQuery, PhotoQuery }, MaxSteps) }

\* the plan of MaxFactSteps fact-seeking steps
FactPlans == { PlanOf(Some(PlanTitle), [i \in 1..MaxFactSteps |-> FactQuery]) }

TitleChars == { "R", "2", "ru_ya", "ar_3", " ", "_", "-", ":" }

\* plans without steps, of any title, or without a title
TitlePlans ==
    { PlanOf(t, <<>>) :
        t \in { None } \cup { Some(s) : s \in SeqsUpTo(TitleChars, MaxTitleLen) } }

\* what the generation service may answer to the request of line 72
PlanResponses == GeneralPlans \cup TitlePlans

\* the number of items the search service may answer with
ItemCounts == { 0, MaxItems }

\* item j of the answer to the text search of step i
ServiceItem(i, j) ==
    [title |-> <<"title", ToString(i), ToString(j)>>,
     snippet |-> <<"snippet", ToString(i), ToString(j)>>,
     link |-> <<"link", ToString(i), ToString(j)>>]

ServiceItems(i, n) == [j \in 1..n |-> ServiceItem(i, j)]

\* the "items" of an image search: each item may hold "link" and, under
\* "image", "thumbnailLink" and "contextLink"
ImageItem(link, thumb, ctx) == [link |-> link, thumbnailLink |-> thumb, contextLink |-> ctx]

ImageResponses ==
    { <<>>,
      <<ImageItem(Some("u1"), None, None)>>,
      <<ImageItem(Some("u2"), Some("u1"), None)>>,
      <<ImageItem(None, Some("u1"), Some("u2"))>>,
      <<ImageItem(None, None, Some("u2"))>>,
      <<ImageItem(None, None, None)>> }

Section(heading, body) == [heading |-> heading, body |-> body]

\* what the generation service may answer to the request of line 123
ArticleResponses ==
    { [title |-> Some(<<"T", "i", "t", "l", "e">>),
       sections |->
         << Section(<<"I", "n", "t", "r", "o">>, Some(<<"p1", "\n", "\n", " ", "p2", "\n">>)),
            Section(<<"I", "M", "A", "G", "E">>, Some(<<"u1">>)) >>],
      [title |-> None, sections |-> <<>>] }

(***************************************************************************)
(* gemini_call_generate_plan, stand-in branch (lines 50-60).               *)
(***************************************************************************)
MockTitle(t) ==
    <<"RU_S", "ru_t", "ru_a", "ru_t", "ru_soft", "ru_ya", ":", " ">> \o t

MockQueries_PhotoFirst(t) ==
    << <<"RU_O", "ru_f", "ru_i", "ru_ts", "ru_i", "ru_a", "ru_l", "ru_soft",
      "ru_n", "ru_a", "ru_ya", " ", "ru_f", "ru_o", "ru_t", "ru_o", "ru_g",
      "ru_r", "ru_a", "ru_f", "ru_i", "ru_ya", " ">> \o t,
       <<"RU_P", "ru_o", "ru_l", "ru_n", "ru_o", "ru_e", " ", "ru_i", "ru_m",
      "ru_ya", " ", "ru_i", " ", "ru_b", "ru_i", "ru_o", "ru_g", "ru_r", "ru_a",
      "ru_f", "ru_i", "ru_ya", " ">> \o t,
       <<"RU_K", "ru_l", "ru_yu", "ru_ch", "ru_e", "ru_v", "ru_y", "ru_e", " ",
      "ru_d", "ru_o", "ru_s", "ru_t", "ru_i", "ru_zh", "ru_e", "ru_n", "ru_i",
      "ru_ya", " ", "ru_i", " ", "ru_r", "ru_e", "ru_f", "ru_o", "ru_r", "ru_m",
      "ru_y", " ">> \o t
         \o <<" ", "ru_s", " ", "2", "0", "1", "9", " ", "ru_g", "ru_o", "ru_d", "ru_a">>,
       <<"RU_M", "ru_e", "ru_zh", "ru_d", "ru_u", "ru_n", "ru_a", "ru_r", "ru_o",
      "ru_d", "ru_n", "ru_y", "ru_e", " ", "ru_i", "ru_n", "ru_i", "ru_ts",
      "ru_i", "ru_a", "ru_t", "ru_i", "ru_v", "ru_y", ",", " ", "ru_s", "ru_v",
      "ru_ya", "ru_z", "ru_a", "ru_n", "ru_n", "ru_y", "ru_e", " ", "ru_s", " ">> \o t >>

\* lines 53-58
MockQueries(t) ==
    << <<"RU_P", "ru_o", "ru_l", "ru_n", "ru_o", "ru_e", " ", "ru_i", "ru_m",
      "ru_ya", " ", "ru_i", " ", "ru_b", "ru_i", "ru_o", "ru_g", "ru_r", "ru_a",
      "ru_f", "ru_i", "ru_ya", " ">> \o t,
       <<"RU_K", "ru_l", "ru_yu", "ru_ch", "ru_e", "ru_v", "ru_y", "ru_e", " ",
      "ru_d", "ru_o", "ru_s", "ru_t", "ru_i", "ru_zh", "ru_e", "ru_n", "ru_i",
      "ru_ya", " ", "ru_i", " ", "ru_r", "ru_e", "ru_f", "ru_o", "ru_r", "ru_m",
      "ru_y", " ">> \o t
         \o <<" ", "ru_s", " ", "2", "0", "1", "9", " ", "ru_g", "ru_o", "ru_d", "ru_a">>,
       <<"RU_M", "ru_e", "ru_zh", "ru_d", "ru_u", "ru_n", "ru_a", "ru_r", "ru_o",
      "ru_d", "ru_n", "ru_y", "ru_e", " ", "ru_i", "ru_n", "ru_i", "ru_ts",
      "ru_i", "ru_a", "ru_t", "ru_i", "ru_v", "ru_y", ",", " ", "ru_s", "ru_v",
      "ru_ya", "ru_z", "ru_a", "ru_n", "ru_n", "ru_y", "ru_e", " ", "ru_s", " ">> \o t,
       <<"RU_O", "ru_f", "ru_i", "ru_ts", "ru_i", "ru_a", "ru_l", "ru_soft",
      "ru_n", "ru_a", "ru_ya", " ", "ru_f", "ru_o", "ru_t", "ru_o", "ru_g",
      "ru_r", "ru_a", "ru_f", "ru_i", "ru_ya", " ">> \o t >>

MockPlan(t) == PlanOf(Some(MockTitle(t)), MockQueries(t))

(***************************************************************************)
(* google_search_text and google_search_image (lines 143-190).             *)
(***************************************************************************)
\* str.replace(' ', '_')
ReplaceSpaces(s) == [i \in 1..Len(s) |-> IF s[i] = " " THEN "_" ELSE s[i]]

\* line 148
MockTextResults(q) ==
    << [title |-> <<"Result for ">> \o q,
        snippet |-> <<"Snippet about ">> \o q,
        link |-> <<"https://example.com/">> \o ReplaceSpaces(q)] >>

\* line 173
MockImageUrl == Some("https://via.placeholder.com/800x600.png?text=Mock+Image")

\* lines 156-163: the first num items
TextResults(items, num) == Take(items, num)

\* a or b
Or(a, b) == IF Truthy(a) THEN a ELSE b

\* lines 181-188
ImageResult(items) ==
    IF items = <<>> THEN None
    ELSE IF items[1].link # None THEN items[1].link
    ELSE Or(items[1].thumbnailLink, items[1].contextLink)

(***************************************************************************)
(* execute_ai_plan, the loop over the steps (lines 245-269).               *)
(***************************************************************************)
\* line 245
ArticleTitle(p, t) == IF p.articleTitle = None THEN t ELSE p.articleTitle[1]

ResearchSteps_TopicDefault ==
    IF plan = None THEN <<>>
    ELSE IF plan[1].researchSteps = <<>> THEN <<Step(1, topic)>>
    ELSE plan[1].researchSteps

\* line 246
ResearchSteps == IF plan = None THEN <<>> ELSE plan[1].researchSteps

KW_foto == <<"ru_f", "ru_o", "ru_t", "ru_o">>
KW_fotograf == <<"ru_f", "ru_o", "ru_t", "ru_o", "ru_g", "ru_r", "ru_a", "ru_f">>
KW_image == <<"i", "m", "a", "g", "e">>

\* line 255
IsImageQuery(q) ==
    \/ Contains(Lower(q), KW_foto)
    \/ Contains(Lower(q), KW_fotograf)
    \/ Contains(Lower(q), KW_image)
    \/ Contains(Lower(q), KW_fotograf)

\* line 253: not q
SkipsStep(q) == q = <<>>

StepType(q) == IF IsImageQuery(q) THEN "image" ELSE "text"

\* the dicts appended to collected
ImageEntry(q, url) ==
    [query |-> q, type |-> "image", status |-> "result", url |-> url,
     items |-> <<>>, error |-> None]
TextEntry(q, results) ==
    [query |-> q, type |-> "text", status |-> "result", url |-> None,
     items |-> results, error |-> None]
ErrorEntry(q, exc) ==
    [query |-> q, type |-> StepType(q), status |-> "error", url |-> None,
     items |-> <<>>, error |-> Some(exc)]

AfterStepError_Abort == "failed"
AfterStepError_Replan == "plan"

\* lines 260 and 268: the except clause ends the step and the loop goes on
AfterStepError == "loop"

\* line 258
ImageUrlAfter(old, url) == url

\* lines 259 and 265
CollectedAfterResult(c, entry) == Append(c, entry)

CollectedAfterError_Dropped(c, q, exc) == c

\* lines 261 and 269
CollectedAfterError(c, q, exc) == Append(c, ErrorEntry(q, exc))

\* line 267
FormatFact(r) ==
    r.title \o <<" ", "EM_DASH", " ">> \o r.snippet \o <<" ", "(">> \o r.link
            \o <<")">>

\* lines 266-267
FactsAfter(fs, results) == fs \o [i \in 1..Len(results) |-> FormatFact(results[i])]

TrimFacts_Untrimmed(fs) == fs

\* line 276
TrimFacts(fs) == Take(fs, FactsCap)

\* lines 271-277
Aggregated(ti, fs) ==
    [topic |-> topic, articleTitle |-> ti, collected |-> collected,
     image_url |-> image_url, facts_summary |-> TrimFacts(fs)]

(***************************************************************************)
(* gemini_call_generate_article, stand-in branch (lines 98-108).           *)
(***************************************************************************)
RECURSIVE JoinLines(_)
\* "\n".join(lines)
JoinLines(lines) ==
    IF lines = <<>> THEN <<>>
    ELSE IF Len(lines) = 1 THEN lines[1]
    ELSE lines[1] \o <<"\n">> \o JoinLines(Tail(lines))

MockArticle(agg) ==
    [title |-> Some(agg.articleTitle),
     sections |->
       << Section(<<"RU_V", "ru_v", "ru_e", "ru_d", "ru_e", "ru_n", "ru_i", "ru_e">>,
                  Some(<<"Kratkoe vvedenie po teme: ">> \o agg.topic \o <<".">>)),
          Section(<<"RU_O", "ru_s", "ru_n", "ru_o", "ru_v", "ru_n", "ru_y", "ru_e", " ",
      "ru_f", "ru_a", "ru_k", "ru_t", "ru_y">>,
                  Some(<<"Sobrannye fakty:", "\n">> \o JoinLines(agg.facts_summary))),
          Section(<<"RU_V", "ru_y", "ru_v", "ru_o", "ru_d">>, Some(<<"Korotkij vyvod.">>)),
          Section(<<"I", "m", "a", "g", "e", "P", "l", "a", "c", "e", "h", "o", "l", "d", "e",
      "r">>,
                  IF agg.image_url = None THEN None
                  ELSE Some(<<agg.image_url[1]>>)) >>]

(***************************************************************************)
(* create_word_document (lines 192-241).                                   *)
(***************************************************************************)
Heading(level, text) == [el |-> "heading", level |-> level, text |-> text]
Paragraph(text) == [el |-> "paragraph", level |-> 0, text |-> text]
PageBreak == [el |-> "page_break", level |-> 0, text |-> <<>>]
Picture(file) == [el |-> "picture", level |-> 0, text |-> <<file>>]

\* line 213
PlaceholderHeadings ==
    { <<"i", "m", "a", "g", "e", "p", "l", "a", "c", "e", "h", "o", "l", "d", "e",
      "r">>,
      <<"i", "m", "a", "g", "e", " ", "p", "l", "a", "c", "e", "h", "o", "l", "d",
      "e", "r">>,
      <<"i", "m", "a", "g", "e">> }

FirstBlankLine(s) ==
    IF \E i \in 1..(Len(s) - 1) : s[i] = "\n" /\ s[i + 1] = "\n"
    THEN CHOOSE i \in 1..(Len(s) - 1) :
            /\ s[i] = "\n" /\ s[i + 1] = "\n"
            /\ \A k \in 1..(i - 1) : ~(s[k] = "\n" /\ s[k + 1] = "\n")
    ELSE 0

RECURSIVE SplitBlankLines(_)
\* str.split("\n\n")
SplitBlankLines(s) ==
    IF FirstBlankLine(s) = 0 THEN <<s>>
    ELSE <<SubSeq(s, 1, FirstBlankLine(s) - 1)>>
           \o SplitBlankLines(SubSeq(s, FirstBlankLine(s) + 2, Len(s)))

NonEmpty(s) == s # <<>>

\* line 215
Paras(body) ==
    SelectSeq([i \in 1..Len(SplitBlankLines(body)) |->
                  Strip(SplitBlankLines(body)[i])], NonEmpty)

\* line 213
RendersHeading(heading) ==
    heading # <<>> /\ Lower(heading) \notin PlaceholderHeadings

\* lines 210-220 for one section
SectionElements(sec) ==
    (IF RendersHeading(sec.heading) THEN <<Heading(2, sec.heading)>> ELSE <<>>)
      \o [i \in 1..Len(Paras(sec.body[1])) |-> Paragraph(Paras(sec.body[1])[i])]

\* line 215 on a body that is None: body.split raises AttributeError
BodyRaises(sec) == sec.body = None

\* the first section whose body is None, or 0
FirstBadSection(sections) ==
    IF \E i \in 1..Len(sections) : BodyRaises(sections[i])
    THEN CHOOSE i \in 1..Len(sections) :
            /\ BodyRaises(sections[i])
            /\ \A k \in 1..(i - 1) : ~BodyRaises(sections[k])
    ELSE 0

RECURSIVE SectionsElements(_)
\* lines 209-220 over sections whose bodies are strings
SectionsElements(sections) ==
    IF sections = <<>> THEN <<>>
    ELSE SectionElements(Head(sections)) \o SectionsElements(Tail(sections))

DefaultTitle == <<"A", "r", "t", "i", "c", "l", "e">>

\* line 206
TitleElement(article) ==
    Heading(1, IF article.title = None THEN DefaultTitle ELSE article.title[1])

\* the steps of lines 224-234, each of which may raise; "none": none raises
ImageSteps ==
    { "get", "raise_for_status", "open", "tmpfile", "save", "add_picture",
      "unlink", "none" }

TmpName == "tmp.png"

\* the temporary file of line 228 exists when the try statement is left
TmpLeft(failed) == failed \in { "save", "add_picture", "unlink" }

ImageHeading == <<"RU_I", "ru_z", "ru_o", "ru_b", "ru_r", "ru_a", "ru_zh", "ru_e", "ru_n",
      "ru_i", "ru_e">>
FallbackText(url) == <<"Ne udalos zagruzit izobrazhenie. Ssylka: ", url>>
NotFoundText == <<"Izobrazhenie ne najdeno.">>

\* lines 231-236: what the try statement adds to the document
ImageElements(url, failed) ==
    (IF failed \in { "add_picture", "unlink", "none" }
     THEN <<PageBreak, Heading(2, ImageHeading)>> ELSE <<>>)
    \o (IF failed \in { "unlink", "none" } THEN <<Picture(TmpName)>> ELSE <<>>)
    \o (IF failed # "none" THEN <<Paragraph(FallbackText(url))>> ELSE <<>>)

(***************************************************************************)
(* execute_ai_plan, the file name (lines 281-287).                         *)
(***************************************************************************)
KeepsChar_Colon(c) == IsAlnum(c) \/ c \in { " ", "_", "-", ":" }

\* line 281: c.isalnum() or c in " _-"
KeepsChar(c) == IsAlnum(c) \/ c \in { " ", "_", "-" }

\* line 281
SafeTitle(t) == Strip(SelectSeq(t, KeepsChar))

FallbackBase == <<"a", "r", "t", "i", "c", "l", "e">>
Extension == <<".", "d", "o", "c", "x">>

\* line 282, without the extension
FileBase(t) == IF SafeTitle(t) = <<>> THEN FallbackBase ELSE SafeTitle(t)

\* lines 283-287; "cwd" is os.getcwd()
FilePath(folder, t) ==
    [dir |-> IF Truthy(folder) THEN folder[1] ELSE "cwd",
     name |-> FileBase(t) \o Extension]

FilesAfterSave_Twice(fs, path) == Append(Append(fs, path), path)

\* line 240: the document files written once doc.save has returned
FilesAfterSave(fs, path) == Append(fs, path)

(***************************************************************************)
(* execute_ai_plan (lines 243-291) as a state machine.                     *)
(***************************************************************************)
Topics == { <<"E", "x", "a", "m", "p", "l", "e">>, <<"RU_F", "ru_o", "ru_t", "ru_o">> }
Folders == { None, Some("out") }

\* the classes of exception a search request raises
SearchExcKinds == { "HTTPError" }

Init ==
    /\ pc = "plan"
    /\ USE_MOCK \in BOOLEAN
    /\ topic \in Topics
    /\ save_folder \in Folders
    /\ plan = None
    /\ idx = 0
    /\ collected = <<>>
    /\ image_url = None
    /\ facts_summary = <<>>
    /\ aggregated = None
    /\ article_json = None
    /\ wb = NoFrame
    /\ events = <<>>
    /\ last_call = "none"
    /\ net = {}
    /\ invoked = <<>>
    /\ files = <<>>
    /\ tmpfiles = {}
    /\ filepath = None
    /\ document = <<>>
    /\ result = Running
    /\ NoShell

\* with_backoff(_call) with the default parameters of line 28
DefaultCall ==
    WB_Enter(WB_Call(DefaultMaxRetries, DefaultInitialDelay, DefaultFactor))

\* line 28: with_backoff is entered
CallStarts ==
    /\ wb' = DefaultCall
    /\ events' = <<>>
    /\ last_call' = "running"

\* line 36: with_backoff returns and its frame is gone
CallReturns ==
    /\ wb' = NoFrame
    /\ events' = <<>>
    /\ last_call' = "returned"

\* lines 37-42: the invocation raised
CallRaises ==
    /\ wb' = IF WB_Exhausted(wb) THEN NoFrame ELSE WB_Retry(wb)
    /\ events' = IF WB_Exhausted(wb) THEN <<>>
                 ELSE WB_EventsOnException(wb, "Exception")
    /\ last_call' = IF WB_Exhausted(wb) THEN "raised" ELSE last_call

NoCall == UNCHANGED <<wb, events, last_call>>

\* an exception that leaves execute_ai_plan: nothing catches it
Propagates(exc) ==
    /\ result' = exc
    /\ pc' = "failed"

\* line 244: gemini_call_generate_plan is entered (lines 50-60, or 90)
GeneratePlan ==
    /\ pc = "plan"
    /\ invoked' = Append(invoked, "planner")
    /\ IF USE_MOCK
       THEN /\ plan' = Some(MockPlan(topic))
            /\ pc' = "loop"
            /\ idx' = 1
            /\ NoCall
       ELSE /\ pc' = "plan_call"
            /\ CallStarts
            /\ UNCHANGED <<plan, idx>>
    /\ UNCHANGED <<USE_MOCK, topic, save_folder, collected, image_url,
                   facts_summary, aggregated, article_json, net, files,
                   tmpfiles, filepath, document, result>>
    /\ UNCHANGED shellVars

\* lines 72-86 return a plan; lines 245-250
PlanCallReturns(answers) ==
    /\ pc = "plan_call"
    /\ \E p \in answers : plan' = Some(p)
    /\ net' = net \cup { "gemini" }
    /\ CallReturns
    /\ pc' = "loop"
    /\ idx' = 1
    /\ UNCHANGED <<USE_MOCK, topic, save_folder, collected, image_url,
                   facts_summary, aggregated, article_json, invoked, files,
                   tmpfiles, filepath, document, result>>
    /\ UNCHANGED shellVars

\* lines 72-88 raise; lines 37-42
PlanCallRaises ==
    /\ pc = "plan_call"
    /\ net' = net \cup { "gemini" }
    /\ \E k \in ExcKinds :
          IF WB_Exhausted(wb)
          THEN Propagates(Exc(k, wb.attempt, "planner"))
          ELSE UNCHANGED <<pc, result>>
    /\ CallRaises
    /\ UNCHANGED <<USE_MOCK, topic, save_folder, plan, idx, collected,
                   image_url, facts_summary, aggregated, article_json, invoked,
                   files, tmpfiles, filepath, document>>
    /\ UNCHANGED shellVars

\* lines 251-255 for one step, and in stand-in mode lines 256-267 as well
ResearchStep ==
    /\ pc = "loop"
    /\ idx <= Len(ResearchSteps)
    /\ LET q == ResearchSteps[idx].query IN
       IF SkipsStep(q)
       THEN /\ idx' = idx + 1
            /\ NoCall
            /\ UNCHANGED <<pc, collected, image_url, facts_summary, invoked>>
       ELSE /\ invoked' = Append(invoked, "search")
            /\ IF USE_MOCK
               THEN /\ idx' = idx + 1
                    /\ IF IsImageQuery(q)
                       THEN /\ image_url' = ImageUrlAfter(image_url, MockImageUrl)
                            /\ collected' =
                                 CollectedAfterResult(collected,
                                                      ImageEntry(q, MockImageUrl))
                            /\ UNCHANGED facts_summary
                       ELSE /\ collected' =
                                 CollectedAfterResult(collected,
                                     TextEntry(q, MockTextResults(q)))
                            /\ facts_summary' =
                                 FactsAfter(facts_summary, MockTextResults(q))
                            /\ UNCHANGED image_url
                    /\ NoCall
                    /\ UNCHANGED pc
               ELSE /\ pc' = "search"
                    /\ CallStarts
                    /\ UNCHANGED <<idx, collected, image_url, facts_summary>>
    /\ UNCHANGED <<USE_MOCK, topic, save_folder, plan, aggregated, article_json,
                   net, files, tmpfiles, filepath, document, result>>
    /\ UNCHANGED shellVars

\* lines 151-163 or 176-188 return; lines 258-259 or 265-267
SearchReturns ==
    /\ pc = "search"
    /\ net' = net \cup { "google" }
    /\ CallReturns
    /\ LET q == ResearchSteps[idx].query IN
       IF IsImageQuery(q)
       THEN \E items \in ImageResponses :
               /\ image_url' = ImageUrlAfter(image_url, ImageResult(items))
               /\ collected' =
                    CollectedAfterResult(collected,
                                         ImageEntry(q, ImageResult(items)))
               /\ UNCHANGED facts_summary
       ELSE \E n \in ItemCounts :
               LET results == TextResults(ServiceItems(idx, n), MAX_SEARCH_RESULTS) IN
               /\ collected' = CollectedAfterResult(collected, TextEntry(q, results))
               /\ facts_summary' = FactsAfter(facts_summary, results)
               /\ UNCHANGED image_url
    /\ idx' = idx + 1
    /\ pc' = "loop"
    /\ UNCHANGED <<USE_MOCK, topic, save_folder, plan, aggregated, article_json,
                   invoked, files, tmpfiles, filepath, document, result>>
    /\ UNCHANGED shellVars

\* lines 151-155 or 176-180 raise; lines 37-42, then lines 260-261 or 268-269
SearchRaises ==
    /\ pc = "search"
    /\ net' = net \cup { "google" }
    /\ \E k \in SearchExcKinds :
          IF WB_Exhausted(wb)
          THEN /\ collected' =
                    CollectedAfterError(collected, ResearchSteps[idx].query,
                                        Exc(k, wb.attempt, "search"))
               /\ idx' = idx + 1
               /\ pc' = AfterStepError
          ELSE UNCHANGED <<pc, idx, collected>>
    /\ CallRaises
    /\ UNCHANGED <<USE_MOCK, topic, save_folder, plan, image_url, facts_summary,
                   aggregated, article_json, invoked, files, tmpfiles, filepath,
                   document, result>>
    /\ UNCHANGED shellVars

\* lines 271-279: the loop is over; gemini_call_generate_article is entered
\* (lines 98-108, or 141)
Aggregate ==
    /\ pc = "loop"
    /\ idx > Len(ResearchSteps)
    /\ LET agg == Aggregated(ArticleTitle(plan[1], topic), facts_summary) IN
       /\ aggregated' = Some(agg)
       /\ invoked' = Append(invoked, "composer")
       /\ IF USE_MOCK
          THEN /\ article_json' = Some(MockArticle(agg))
               /\ pc' = "render"
               /\ NoCall
          ELSE /\ pc' = "compose_call"
               /\ CallStarts
               /\ UNCHANGED article_json
    /\ UNCHANGED <<USE_MOCK, topic, save_folder, plan, idx, collected, image_url,
                   facts_summary, net, files, tmpfiles, filepath, document,
                   result>>
    /\ UNCHANGED shellVars

\* lines 123-137 return an article
ComposeReturns ==
    /\ pc = "compose_call"
    /\ \E a \in ArticleResponses : article_json' = Some(a)
    /\ net' = net \cup { "gemini" }
    /\ CallReturns
    /\ pc' = "render"
    /\ UNCHANGED <<USE_MOCK, topic, save_folder, plan, idx, collected, image_url,
                   facts_summary, aggregated, invoked, files, tmpfiles,
                   filepath, document, result>>
    /\ UNCHANGED shellVars

\* lines 123-139 raise; lines 37-42
ComposeRaises ==
    /\ pc = "compose_call"
    /\ net' = net \cup { "gemini" }
    /\ \E k \in ExcKinds :
          IF WB_Exhausted(wb)
          THEN Propagates(Exc(k, wb.attempt, "composer"))
          ELSE UNCHANGED <<pc, result>>
    /\ CallRaises
    /\ UNCHANGED <<USE_MOCK, topic, save_folder, plan, idx, collected,
                   image_url, facts_summary, aggregated, article_json, invoked,
                   files, tmpfiles, filepath, document>>
    /\ UNCHANGED shellVars

\* lines 281-291: the file name, os.makedirs, create_word_document (lines
\* 197-241) and the return.  makedirs, one of the image steps and doc.save
\* may each raise.
RenderDocument ==
    /\ pc = "render"
    /\ LET path == FilePath(save_folder, ArticleTitle(plan[1], topic))
           art == article_json[1]
           bad == FirstBadSection(art.sections)
       IN
       \E mk \in (IF Truthy(save_folder) THEN { "ok", "raises" } ELSE { "ok" }),
          failed \in (IF Truthy(image_url) /\ bad = 0 THEN ImageSteps ELSE { "none" }),
          sv \in (IF bad = 0 THEN { "ok", "raises" } ELSE { "raises" }) :
          IF mk = "raises"
          THEN /\ Propagates(Exc("OSError", 0, "makedirs"))
               /\ UNCHANGED <<invoked, net, files, tmpfiles, filepath, document>>
          ELSE /\ filepath' = Some(path)
               /\ invoked' = Append(invoked, "renderer")
               /\ IF bad # 0
                  THEN /\ document' =
                            <<TitleElement(art)>>
                              \o SectionsElements(SubSeq(art.sections, 1, bad - 1))
                              \o (IF RendersHeading(art.sections[bad].heading)
                                  THEN <<Heading(2, art.sections[bad].heading)>>
                                  ELSE <<>>)
                       /\ Propagates(Exc("AttributeError", 0, "renderer"))
                       /\ UNCHANGED <<net, files, tmpfiles>>
                  ELSE /\ document' =
                            <<TitleElement(art)>> \o SectionsElements(art.sections)
                              \o (IF Truthy(image_url)
                                  THEN ImageElements(image_url[1], failed)
                                  ELSE <<Paragraph(NotFoundText)>>)
                       /\ net' = IF Truthy(image_url) THEN net \cup { "image" } ELSE net
                       /\ tmpfiles' =
                            IF Truthy(image_url) /\ TmpLeft(failed)
                            THEN tmpfiles \cup { TmpName } ELSE tmpfiles
                       /\ IF sv = "ok"
                          THEN /\ files' = FilesAfterSave(files, path)
                               /\ result' = Returned("RunResult")
                               /\ pc' = "done"
                          ELSE /\ Propagates(Exc("OSError", 0, "renderer"))
                               /\ UNCHANGED files
    /\ UNCHANGED <<USE_MOCK, topic, save_folder, plan, idx, collected, image_url,
                   facts_summary, aggregated, article_json, wb, events, last_call>>
    /\ UNCHANGED shellVars

Next ==
    \/ GeneratePlan
    \/ PlanCallReturns(PlanResponses)
    \/ PlanCallRaises
    \/ ResearchStep
    \/ SearchReturns
    \/ SearchRaises
    \/ Aggregate
    \/ ComposeReturns
    \/ ComposeRaises
    \/ RenderDocument

Spec == Init /\ [][Next]_vars

(***************************************************************************)
(* The same run when the generation service answers with the long plan of  *)
(* fact-seeking steps.                                                     *)
(***************************************************************************)
InitFacts ==
    /\ Init
    /\ topic = <<"E", "x", "a", "m", "p", "l", "e">>
    /\ save_folder = None

NextFacts ==
    \/ GeneratePlan
    \/ PlanCallReturns(FactPlans)
    \/ PlanCallRaises
    \/ ResearchStep
    \/ SearchReturns
    \/ SearchRaises
    \/ Aggregate
    \/ ComposeReturns
    \/ ComposeRaises
    \/ RenderDocument

SpecFacts == InitFacts /\ [][NextFacts]_vars

(***************************************************************************)
(* gemini_call_generate_plan and gemini_call_generate_article against the  *)
(* generation service (lines 71-90 and 122-141).  The text of a response   *)
(* is a sequence of tokens: the braces, white space, a chunk "junk" that   *)
(* is no JSON, and a chunk "doc1" or "doc2" that is the well-formed member *)
(* list of one document.                                                   *)
(***************************************************************************)
Docs == { "doc1", "doc2" }

\* json.dumps of a dict (lines 78 and 129)
Dumps(d) == <<"{", d, "}">>

\* json.loads (lines 80, 86, 131, 137): the document, or None when it raises
JsonLoads(s) ==
    IF /\ Len(Strip(s)) = 3
       /\ Strip(s)[1] = "{"
       /\ Strip(s)[2] \in Docs
       /\ Strip(s)[3] = "}"
    THEN Some(Strip(s)[2])
    ELSE None

Matches_Never(s) == FALSE

\* lines 84-85 and 135-136: re.search(r'(\{.*\})', raw, flags=re.S) matches
Matches(s) == \E i, j \in 1..Len(s) : i < j /\ s[i] = "{" /\ s[j] = "}"

\* m.group(1): from the first opening brace to the last closing brace
Group1(s) ==
    LET open == CHOOSE i \in 1..Len(s) :
                   /\ s[i] = "{"
                   /\ \A k \in 1..(i - 1) : s[k] # "{"
        close == CHOOSE j \in 1..Len(s) :
                   /\ s[j] = "}"
                   /\ \A k \in (j + 1)..Len(s) : s[k] # "}"
    IN SubSeq(s, open, close)

\* what one request meets: an exception of requests.post or raise_for_status
\* (error), or a body with the key "output" (output), or a body without it
\* (doc)
Response(error, output, doc) == [error |-> error, output |-> output, doc |-> doc]

\* the texts the service puts under "output"
RawOutputs ==
    UNION { { <<"{", d, "}">>, <<"junk", "{", d, "}", "junk">> } : d \in Docs }
      \cup { <<"junk">>, <<"{", "junk", "}">>, <<"junk", "{", "junk", "}">>,
             <<"{", "doc1", "}", "{", "doc1", "}">> }

GeminiResponses ==
    { Response(k, None, "") : k \in { "ConnectionError", "HTTPError" } }
      \cup { Response("", Some(raw), "") : raw \in RawOutputs }
      \cup { Response("", None, d) : d \in Docs }

\* lines 75-78 and 126-129
RawOf(r) == IF r.output # None THEN r.output[1] ELSE Dumps(r.doc)

\* the first argument of ValueError (lines 88 and 139), before the raw text
ParsePrefix(site) ==
    IF site = "planner" THEN "Ne udalos rasparsit JSON-plan ot Gemini: "
    ELSE "Ne udalos rasparsit JSON-statyu ot Gemini: "

\* an exception with the text it carries (its arguments, or the doc of a
\* JSONDecodeError)
ExcText(kind, at, site, text) ==
    [status |-> "raised", kind |-> kind, at |-> at, val |-> site, text |-> text]

\* _call (lines 71-88 and 122-139) on one response, at attempt at
Call(site, r, at) ==
    IF r.error # "" THEN ExcText(r.error, at, site, <<>>)
    ELSE IF JsonLoads(RawOf(r)) # None THEN Returned(JsonLoads(RawOf(r))[1])
    ELSE IF ~Matches(RawOf(r))
         THEN ExcText("ValueError", at, site, <<ParsePrefix(site)>> \o RawOf(r))
    ELSE IF JsonLoads(Group1(RawOf(r))) # None
         THEN Returned(JsonLoads(Group1(RawOf(r)))[1])
    ELSE ExcText("JSONDecodeError", at, site, Group1(RawOf(r)))

\* the text the service sent, as the log of the call keeps it
SentText(r) == IF r.error # "" THEN <<>> ELSE RawOf(r)

InitGemini ==
    /\ pc = "gemini_call"
    /\ invoked \in { <<"planner">>, <<"composer">> }
    /\ wb = NoFrame
    /\ events = <<>>
    /\ last_call = "none"
    /\ result = Running
    /\ USE_MOCK = FALSE
    /\ topic = <<>>
    /\ save_folder = None
    /\ plan = None
    /\ idx = 0
    /\ collected = <<>>
    /\ image_url = None
    /\ facts_summary = <<>>
    /\ aggregated = None
    /\ article_json = None
    /\ net = {}
    /\ files = <<>>
    /\ tmpfiles = {}
    /\ filepath = None
    /\ document = <<>>
    /\ NoShell

geminiVars ==
    <<USE_MOCK, topic, save_folder, plan, idx, collected, image_url,
      facts_summary, aggregated, article_json, invoked, files, tmpfiles,
      filepath, document>>

\* lines 90 and 141: with_backoff(_call) is entered
GeminiEnter ==
    /\ pc = "gemini_call"
    /\ pc' = "gemini_request"
    /\ CallStarts
    /\ UNCHANGED <<result, net, geminiVars>>
    /\ UNCHANGED shellVars

\* line 36: _call returns the parsed document
GeminiReturns ==
    /\ pc = "gemini_request"
    /\ \E r \in GeminiResponses :
          /\ Call(invoked[1], r, wb.attempt).status = "returned"
          /\ result' = Call(invoked[1], r, wb.attempt)
          /\ events' = Append(events, InvokeEvent(wb, "ok", SentText(r)))
    /\ pc' = "gemini_end"
    /\ last_call' = "returned"
    /\ net' = net \cup { "gemini" }
    /\ UNCHANGED <<wb, geminiVars>>
    /\ UNCHANGED shellVars

\* lines 37-42: _call raises
GeminiRaises ==
    /\ pc = "gemini_request"
    /\ \E r \in GeminiResponses :
          LET exc == Call(invoked[1], r, wb.attempt)
              sent == Append(events, InvokeEvent(wb, exc.kind, SentText(r)))
          IN
          /\ exc.status = "raised"
          /\ IF WB_Exhausted(wb)
             THEN /\ events' = sent
                  /\ result' = exc
                  /\ pc' = "gemini_end"
                  /\ last_call' = "raised"
                  /\ wb' = wb
             ELSE /\ events' = Append(sent, SleepEvent(wb))
                  /\ wb' = WB_Retry(wb)
                  /\ UNCHANGED <<result, pc, last_call>>
    /\ net' = net \cup { "gemini" }
    /\ UNCHANGED geminiVars
    /\ UNCHANGED shellVars

NextGemini == GeminiEnter \/ GeminiReturns \/ GeminiRaises

SpecGemini == InitGemini /\ [][NextGemini]_vars

(***************************************************************************)
(* The window: CADApp.on_generate and its worker thread (lines 332-352).   *)
(* pc is the position of the main thread: in the event loop, or inside     *)
(* on_generate between line 339 and line 352.  The button invokes its      *)
(* command only while its state is normal.  A worker is the thread of one  *)
(* call of on_generate, with the topic its closure holds.                  *)
(***************************************************************************)
\* the texts the user types into the entry
TopicTexts == { <<>>, <<" ">>, <<"a">>, <<" ", "b", " ">> }

Worker(at, t) == [pc |-> at, topic |-> t]

ButtonOnGenerate_Normal == "normal"

\* line 338
ButtonOnGenerate == "disabled"

\* line 350
ButtonAfterWorker == "normal"

\* the calls of on_generate so far
Clicks ==
    Len(workers) + Cardinality({ i \in 1..Len(messagebox) : messagebox[i] = "warning" })
      + (IF pc = "on_generate" THEN 1 ELSE 0)

runVars == <<wb, events, last_call, result, pipelineVars>>

InitShell ==
    /\ pc = "mainloop"
    /\ generate_btn = "normal"
    /\ topic_var = <<>>
    /\ workers = <<>>
    /\ log = <<>>
    /\ messagebox = <<>>
    /\ wb = NoFrame
    /\ events = <<>>
    /\ last_call = "none"
    /\ result = Running
    /\ Idle

\* lines 304-306: the user edits the entry
UserTypes ==
    /\ pc = "mainloop"
    /\ \E t \in TopicTexts \ { topic_var } : topic_var' = t
    /\ UNCHANGED <<pc, generate_btn, workers, log, messagebox, runVars>>

\* lines 332-339: the button is pressed; up to the definition of worker
OnGenerate ==
    /\ pc = "mainloop"
    /\ generate_btn = "normal"
    /\ Clicks < MaxClicks
    /\ IF Strip(topic_var) = <<>>
       THEN /\ messagebox' = Append(messagebox, "warning")
            /\ UNCHANGED <<pc, generate_btn, log>>
       ELSE /\ generate_btn' = ButtonOnGenerate
            /\ log' = Append(log, "start")
            /\ pc' = "on_generate"
            /\ UNCHANGED messagebox
    /\ UNCHANGED <<topic_var, workers, runVars>>

\* lines 341-352: the thread is started and on_generate returns
StartWorker ==
    /\ pc = "on_generate"
    /\ workers' = Append(workers, Worker("run", Strip(topic_var)))
    /\ pc' = "mainloop"
    /\ UNCHANGED <<generate_btn, topic_var, log, messagebox, runVars>>

\* lines 343-345: execute_ai_plan returns; the dialog is shown
WorkerReturns ==
    /\ \E i \in 1..Len(workers) :
          /\ workers[i].pc = "run"
          /\ workers' = [workers EXCEPT ![i].pc = "showinfo"]
    /\ log' = Append(log, "done")
    /\ messagebox' = Append(messagebox, "info")
    /\ UNCHANGED <<pc, generate_btn, topic_var, runVars>>

\* lines 343 and 346-348: execute_ai_plan raises; the dialog is shown
WorkerRaises ==
    /\ \E i \in 1..Len(workers) :
          /\ workers[i].pc = "run"
          /\ workers' = [workers EXCEPT ![i].pc = "showerror"]
    /\ log' = Append(log, "error")
    /\ messagebox' = Append(messagebox, "error")
    /\ UNCHANGED <<pc, generate_btn, topic_var, runVars>>

\* lines 349-350: the dialog is closed and the finally clause runs
WorkerFinally ==
    /\ \E i \in 1..Len(workers) :
          /\ workers[i].pc \in { "showinfo", "showerror" }
          /\ workers' = [workers EXCEPT ![i].pc = "end"]
    /\ generate_btn' = ButtonAfterWorker
    /\ UNCHANGED <<pc, topic_var, log, messagebox, runVars>>

NextShell ==
    \/ UserTypes
    \/ OnGenerate
    \/ StartWorker
    \/ WorkerReturns
    \/ WorkerRaises
    \/ WorkerFinally

SpecShell == InitShell /\ [][NextShell]_vars

RECURSIVE Pow(_, _)
Pow(b, e) == IF e = 0 THEN 1 ELSE b * Pow(b, e - 1)

Invocations == { i \in 1..Len(events) : events[i].ev = "invoke" }
Sleeps == { i \in 1..Len(events) : events[i].ev = "sleep" }
FailedInvocations == { i \in Invocations : events[i].kind # "ok" }

\* C1: when with_backoff returns after k failed invocations (k < max_retries),
\* func was invoked exactly k+1 times, the wrapper slept exactly k times, sleep
\* i lies between invocations i and i+1 and lasts initial_delay * factor^(i-1),
\* and the value returned is the value of invocation k+1.
C1_SuccessAfterFailures ==
    (pc = "wb_end" /\ result.status = "returned") =>
        LET k == Cardinality(FailedInvocations) IN
        /\ k < wb.max_retries
        /\ Len(events) = 2 * k + 1
        /\ Cardinality(Invocations) = k + 1
        /\ Cardinality(Sleeps) = k
        /\ \A i \in 1..k :
              /\ events[2 * i - 1].ev = "invoke"
              /\ events[2 * i - 1].n = i
              /\ events[2 * i - 1].kind # "ok"
              /\ events[2 * i].ev = "sleep"
              /\ events[2 * i].delay = wb.initial_delay * Pow(wb.factor, i - 1)
        /\ events[2 * k + 1].ev = "invoke"
        /\ events[2 * k + 1].n = k + 1
        /\ events[2 * k + 1].kind = "ok"
        /\ result.val = events[2 * k + 1].val

\* four failures, then success, with max_retries = 5, delay d = 2 and factor 2
C1_Witness ==
    /\ pc = "wb_end"
    /\ result.status = "returned"
    /\ wb.max_retries = 5
    /\ wb.initial_delay = 2
    /\ wb.factor = 2
    /\ Cardinality(FailedInvocations) = 4
    /\ [i \in 1..4 |-> events[2 * i].delay] = <<2, 4, 8, 16>>

\* C2: when every invocation fails (max_retries >= 1), func is invoked exactly
\* max_retries times, the wrapper sleeps max_retries - 1 times and not after
\* the last failure, and the exception that reaches the caller is the one the
\* last invocation raised, whatever the classes of the exceptions.
C2_RetryExhaustion ==
    (pc = "wb_end" /\ result.status = "raised" /\ wb.max_retries >= 1) =>
        /\ Cardinality(Invocations) = wb.max_retries
        /\ FailedInvocations = Invocations
        /\ Cardinality(Sleeps) = wb.max_retries - 1
        /\ Len(events) = 2 * wb.max_retries - 1
        /\ events[Len(events)].ev = "invoke"
        /\ \A i \in 1..(wb.max_retries - 1) : events[2 * i].ev = "sleep"
        /\ result = Exc(events[Len(events)].kind, wb.max_retries, "func")

\* three failures of three different classes with max_retries = 3
C2_Witness ==
    /\ pc = "wb_end"
    /\ result.status = "raised"
    /\ wb.max_retries = 3
    /\ Len(events) = 5
    /\ events[1].kind = "ConnectionError"
    /\ events[3].kind = "HTTPError"
    /\ events[5].kind = "ValueError"
    /\ result.kind = "ValueError"

(***************************************************************************)
(* Properties of execute_ai_plan.                                          *)
(***************************************************************************)
Range(s) == { s[i] : i \in 1..Len(s) }
Last(s) == s[Len(s)]

HasQuery(st) == st.query # <<>>
QueriesOf(s) == [i \in 1..Len(s) |-> s[i].query]

\* the steps the loop has gone through
StepsDone == SubSeq(ResearchSteps, 1, idx - 1)

\* C3 as claimed: once the loop is over, collected has one entry per step of
\* the plan, entry i being that of step i, whatever the queries are.
C3_OneEntryPerStep ==
    aggregated # None =>
        /\ Len(collected) = Len(ResearchSteps)
        /\ QueriesOf(collected) = QueriesOf(ResearchSteps)

\* C3, amended: throughout the loop and after it, collected has exactly one
\* entry (a result or an error) for each step gone through whose query is not
\* empty, in the order of the plan; a step without a query leaves no entry.
C3_OneEntryPerQueriedStep ==
    (pc \in { "loop", "search" } \/ aggregated # None) =>
        /\ QueriesOf(collected) = QueriesOf(SelectSeq(StepsDone, HasQuery))
        /\ \A i \in 1..Len(collected) :
              /\ collected[i].status \in { "result", "error" }
              /\ collected[i].status = "error" <=> collected[i].error # None
              /\ collected[i].type = StepType(collected[i].query)

\* a plan of two steps: the first search failed, the second found nothing
C3_Witness ==
    /\ aggregated # None
    /\ Len(ResearchSteps) = 2
    /\ Len(collected) = 2
    /\ collected[1].status = "error"
    /\ collected[2].status = "result"
    /\ collected[2].type = "text"
    /\ collected[2].items = <<>>

\* the indices of the image lookups that returned a URL
UrlEntries ==
    { i \in 1..Len(collected) :
        /\ collected[i].type = "image"
        /\ collected[i].status = "result"
        /\ Truthy(collected[i].url) }

LastUrlEntry == CHOOSE i \in UrlEntries : \A k \in UrlEntries : k <= i

\* C4: once the loop is over, image_url is the URL of the last image-seeking
\* step whose lookup returned a URL, and is absent if there is none: a lookup
\* that fails or finds nothing leaves the URL kept so far.
C4_LastUrlRetained ==
    aggregated # None =>
        image_url = (IF UrlEntries = {} THEN None ELSE collected[LastUrlEntry].url)

\* C5: a search that still fails when the retries are used up ends its step
\* with an error entry and nothing else changed, the run goes on with the next
\* step, the loop is left only when every step has been gone through and then
\* for the composer, the renderer follows a composer that returned, and no
\* exception of a search ever reaches the caller.
C5_StepFailureNeverAborts ==
    /\ [](result.status = "raised" => result.val # "search")
    /\ [][(pc = "search" /\ last_call' = "raised") =>
            /\ pc' = "loop"
            /\ idx' = idx + 1
            /\ result' = Running
            /\ Len(collected') = Len(collected) + 1
            /\ SubSeq(collected', 1, Len(collected)) = collected
            /\ Last(collected').status = "error"
            /\ Last(collected').query = ResearchSteps[idx].query
            /\ UNCHANGED <<image_url, facts_summary, plan>>]_vars
    /\ [][(pc = "loop" /\ pc' \notin { "loop", "search" }) =>
            /\ idx > Len(ResearchSteps)
            /\ invoked' = Append(invoked, "composer")]_vars
    /\ [][(pc = "render" /\ pc' # "render") =>
            \/ Last(invoked') = "renderer"
            \/ result' = Exc("OSError", 0, "makedirs")]_vars

\* the first search failed, the second step was searched, the document written
C5_Witness ==
    /\ pc = "done"
    /\ Len(ResearchSteps) = 2
    /\ Len(collected) = 2
    /\ collected[1].status = "error"
    /\ collected[2].status = "result"
    /\ collected[2].type = "image"
    /\ Last(invoked) = "renderer"
    /\ Len(files) = 1

RECURSIVE AllFacts(_)
\* every text result collected, in step order and, within a step, in result order
AllFacts(c) ==
    IF c = <<>> THEN <<>>
    ELSE [i \in 1..Len(Head(c).items) |-> FormatFact(Head(c).items[i])]
           \o AllFacts(Tail(c))

\* C6: the facts_summary handed to the composer never has more than 20
\* entries; it holds the first 20 text results collected, in step order and
\* within a step in result order, or all of them when there are fewer.
C6_FactsCapped ==
    aggregated # None =>
        /\ Len(aggregated[1].facts_summary) <= 20
        /\ aggregated[1].facts_summary =
             SubSeq(AllFacts(aggregated[1].collected), 1,
                    Min(20, Len(AllFacts(aggregated[1].collected))))

\* more than 20 text results were collected
C6_Witness ==
    /\ aggregated # None
    /\ Len(AllFacts(collected)) > 20
    /\ Len(aggregated[1].facts_summary) = 20

\* C7: a planner or composer failure reaches the caller, no later stage is
\* entered and no document file is written; a run that returns has written
\* exactly one document file, at the path it returns.
C7_OneFileOrNone ==
    /\ (last_call = "raised" /\ Last(invoked) \in { "planner", "composer" }) =>
          /\ pc = "failed"
          /\ result.status = "raised"
          /\ result.val = Last(invoked)
          /\ files = <<>>
          /\ document = <<>>
    /\ (pc = "failed" /\ result.val = "planner") => invoked = <<"planner">>
    /\ (pc = "failed" /\ result.val = "composer") => "renderer" \notin Range(invoked)
    /\ pc = "done" =>
          /\ result = Returned("RunResult")
          /\ filepath # None
          /\ files = <<filepath[1]>>
    /\ pc # "done" => (files = <<>> /\ result.status # "returned")

\* the composer failed after a step was searched
C7_Witness ==
    /\ pc = "failed"
    /\ result.val = "composer"
    /\ collected # <<>>
    /\ files = <<>>

\* C8: in stand-in mode no HTTP request is issued in any state of the run.
C8_NoRequestInMock == USE_MOCK => net = {}

TopicHasKeyword ==
    \/ Contains(Lower(topic), KW_foto)
    \/ Contains(Lower(topic), KW_image)

MockRunShape ==
    /\ plan[1].articleTitle = Some(<<"RU_S", "ru_t", "ru_a", "ru_t", "ru_soft", "ru_ya", ":", " ">> \o topic)
    /\ article_json[1].title = plan[1].articleTitle
    /\ Len(collected) = 4
    /\ QueriesOf(collected) = QueriesOf(plan[1].researchSteps)
    /\ [i \in 1..4 |-> collected[i].type] = <<"text", "text", "text", "image">>
    /\ filepath[1].dir = (IF save_folder = None THEN "cwd" ELSE save_folder[1])
    /\ filepath[1].name =
         Strip(SelectSeq(plan[1].articleTitle[1], KeepsChar)) \o <<".", "d", "o", "c", "x">>

\* C9 as claimed: in stand-in mode, for every topic, the run that returns has
\* the stand-in title, four entries in the order of the stand-in steps, three
\* of type text and then one of type image, and the sanitized title as the
\* file name in the target directory.
C9_MockRunShape == (USE_MOCK /\ pc = "done") => MockRunShape

\* C9, amended: the same for every topic that holds none of the image
\* keywords.
C9_MockRunShapeWithoutKeyword ==
    (USE_MOCK /\ pc = "done" /\ ~TopicHasKeyword) => MockRunShape

C9_Witness ==
    /\ USE_MOCK
    /\ pc = "done"
    /\ topic = <<"E", "x", "a", "m", "p", "l", "e">>
    /\ save_folder = Some("out")
    /\ filepath[1].dir = "out"
    /\ filepath[1].name = <<"RU_S", "ru_t", "ru_a", "ru_t", "ru_soft", "ru_ya", " ", "E", "x", "a",
      "m", "p", "l", "e", ".", "d", "o", "c", "x">>
    /\ Len(collected) = 4

\* the file name of the run without its extension
FileBaseOfRun == SubSeq(filepath[1].name, 1, Len(filepath[1].name) - Len(Extension))

\* the characters of the class [A-Za-z0-9 _-]
InAsciiClass(c) ==
    c \in AsciiUpper \cup AsciiLower \cup AsciiDigits \cup { " ", "_", "-" }

IsLetterOrDigit(c) ==
    c \in AsciiUpper \cup AsciiLower \cup AsciiDigits \cup CyrillicUpper
           \cup CyrillicLower \cup OtherDigits
IsKept(c) == IsLetterOrDigit(c) \/ c \in { " ", "_", "-" }
IsKeptNonSpace(c) == IsLetterOrDigit(c) \/ c \in { "_", "-" }
NotSpace(c) == c # " "

\* C10 as claimed: the file name base holds no character outside
\* [A-Za-z0-9 _-].
C10_AsciiBase ==
    filepath # None =>
        \A i \in 1..Len(FileBaseOfRun) : InAsciiClass(FileBaseOfRun[i])

\* C10, amended: the base holds only letters and digits of any script, spaces,
\* underscores and hyphens: it is the title with every other character
\* removed and the spaces at both ends cut, in the directory given (or the
\* current one), and it is "article" when nothing is left.
C10_SanitizedBase ==
    filepath # None =>
        LET t == ArticleTitle(plan[1], topic)
            base == FileBaseOfRun
        IN
        /\ filepath[1].dir = (IF save_folder = None THEN "cwd" ELSE save_folder[1])
        /\ \A i \in 1..Len(base) : IsKept(base[i])
        /\ IF SelectSeq(t, IsKeptNonSpace) = <<>>
           THEN base = <<"a", "r", "t", "i", "c", "l", "e">>
           ELSE /\ SelectSeq(base, NotSpace) = SelectSeq(t, IsKeptNonSpace)
                /\ base[1] # " "
                /\ base[Len(base)] # " "
                /\ Len(base) <= Len(t)

\* a title of a Cyrillic letter and a punctuation mark
C10_Witness ==
    /\ filepath # None
    /\ plan[1].articleTitle = Some(<<"ru_ya", ":">>)
    /\ FileBaseOfRun = <<"ru_ya">>

(***************************************************************************)
(* C11.                                                                    *)
(***************************************************************************)
\* the texts that parse, directly or through the text between the braces
C11_ParseableTexts ==
    UNION { { <<"{", d, "}">>, <<"junk", "{", d, "}", "junk">> } : d \in Docs }

C11_DocIn(text) == IF text[1] = "{" THEN text[2] ELSE text[3]

\* C11: in a planner or composer call, an invocation whose response does not
\* parse (neither directly nor between its braces) is a failed attempt like
\* one that met a network or HTTP error: while fewer than 5 requests were
\* made it is followed by a sleep of the current delay (1, 2, 4, 8 s) and
\* the next request; the fifth failure ends the call with the exception;
\* a response that parses at request k ends the call with the parsed
\* document after exactly k requests; no call makes more than 5 requests.
C11_ParseFailureIsFailedAttempt ==
    pc \in { "gemini_request", "gemini_end" } =>
    /\ Cardinality(Invocations) <= DefaultMaxRetries
    /\ \A i \in Invocations :
          LET e == events[i] IN
          /\ e.n = Cardinality({ k \in Invocations : k <= i })
          /\ IF e.kind \in { "ConnectionError", "HTTPError" }
                \/ e.val \notin C11_ParseableTexts
             THEN /\ e.kind # "ok"
                  /\ IF e.n < DefaultMaxRetries
                     THEN /\ i < Len(events)
                          /\ events[i + 1].ev = "sleep"
                          /\ events[i + 1].delay =
                               DefaultInitialDelay * Pow(DefaultFactor, e.n - 1)
                          /\ i + 1 = Len(events) =>
                               (pc = "gemini_request" /\ wb.attempt = e.n + 1)
                          /\ i + 1 < Len(events) =>
                               (events[i + 2].ev = "invoke" /\ events[i + 2].n = e.n + 1)
                     ELSE /\ i = Len(events)
                          /\ pc = "gemini_end"
                          /\ result.status = "raised"
                          /\ result.kind = e.kind
             ELSE /\ e.kind = "ok"
                  /\ i = Len(events)
                  /\ pc = "gemini_end"
                  /\ result = Returned(C11_DocIn(e.val))

C11_Witness ==
    /\ pc = "gemini_end"
    /\ invoked = <<"composer">>
    /\ Len(events) = 5
    /\ events[1].kind = "ValueError"
    /\ events[1].val = <<"junk">>
    /\ events[3].kind = "JSONDecodeError"
    /\ events[3].val = <<"junk", "{", "junk", "}">>
    /\ events[5].val = <<"junk", "{", "doc2", "}", "junk">>
    /\ result = Returned("doc2")

(***************************************************************************)
(* C12.                                                                    *)
(***************************************************************************)
\* C12: when create_word_document has returned, no temporary image file it
\* created still exists, whichever of the download, decode, write and embed
\* steps failed.
C12_NoTempFileLeft == pc = "done" => tmpfiles = {}

(***************************************************************************)
(* C13.                                                                    *)
(***************************************************************************)
StageRank(s) ==
    CASE s = "planner" -> 1
      [] s = "search" -> 2
      [] s = "composer" -> 3
      [] s = "renderer" -> 4

Entries(s) == { i \in 1..Len(invoked) : invoked[i] = s }

\* the steps among the first n of the plan that are searched
Searched(n) == { i \in 1..n : ~SkipsStep(ResearchSteps[i].query) }

\* C13: the stages of one run are entered in the order planner, searches,
\* composer, renderer and none is entered after a later one; planner,
\* composer and renderer are entered at most once; while the planner call
\* runs nothing else was entered; a search is entered only with the plan,
\* one at a time and in plan order (the searches entered are those of the
\* steps up to the current one, which never moves back); the composer is
\* entered only when every step is done and no search runs; the renderer
\* only with the composed article.
C13_StageOrder ==
    /\ [](/\ \A i, j \in 1..Len(invoked) :
               i < j => StageRank(invoked[i]) <= StageRank(invoked[j])
          /\ \A s \in { "planner", "composer", "renderer" } :
               Cardinality(Entries(s)) <= 1
          /\ invoked # <<>> => invoked[1] = "planner"
          /\ pc = "plan_call" => invoked = <<"planner">> /\ plan = None
          /\ Entries("search") # {} => plan # None
          /\ pc = "search" =>
               /\ Last(invoked) = "search"
               /\ Cardinality(Entries("search")) = Cardinality(Searched(idx))
          /\ pc = "loop" =>
               Cardinality(Entries("search")) = Cardinality(Searched(idx - 1))
          /\ Entries("composer") # {} =>
               /\ pc \notin { "plan", "plan_call", "loop", "search" }
               /\ idx = Len(ResearchSteps) + 1
               /\ Cardinality(Entries("search")) =
                    Cardinality(Searched(Len(ResearchSteps)))
          /\ pc = "compose_call" => Last(invoked) = "composer" /\ article_json = None
          /\ Entries("renderer") # {} =>
               article_json # None /\ pc \in { "done", "failed" })
    /\ [][idx' \in { idx, idx + 1 }]_vars
    /\ [][pc = "search" /\ pc' # "search" => pc' = "loop" /\ idx' = idx + 1]_vars

C13_Witness ==
    /\ pc = "done"
    /\ ~USE_MOCK
    /\ Len(ResearchSteps) = 2
    /\ invoked = <<"planner", "search", "search", "composer", "renderer">>

(***************************************************************************)
(* C14.                                                                    *)
(***************************************************************************)
\* the elements of the document that report on the image
ImageOutcomes ==
    { i \in 1..Len(document) :
         \/ document[i].el = "picture"
         \/ document[i] = Paragraph(NotFoundText)
         \/ Truthy(image_url) /\ document[i] = Paragraph(FallbackText(image_url[1])) }

\* C14: a document that create_word_document returned holds exactly one
\* image outcome: the picture when the URL is present and download, decode
\* and embedding succeeded, the line with the raw URL instead when one of
\* them failed, the "not found" notice when the URL is absent.
C14_OneImageOutcome ==
    pc = "done" =>
       /\ Cardinality(ImageOutcomes) = 1
       /\ ~Truthy(image_url) => Last(document) = Paragraph(NotFoundText)
       /\ Truthy(image_url) =>
            \/ Last(document).el = "picture"
            \/ Last(document) = Paragraph(FallbackText(image_url[1]))

(***************************************************************************)
(* C15.                                                                    *)
(***************************************************************************)
ParseFailures == { "ValueError", "JSONDecodeError" }

\* C15: when a planner or composer call has ended with every one of its
\* attempts a parse failure (no brace pair in the text, or a brace pair
\* whose text is itself no JSON), the exception that leaves the call
\* carries the raw text of the response of the failing (last) attempt.
C15_ParseErrorCarriesRaw ==
    (/\ pc = "gemini_end"
     /\ result.status = "raised"
     /\ \A i \in Invocations : events[i].kind \in ParseFailures)
    => Contains(result.text, Last(events).val)

(***************************************************************************)
(* C16.                                                                    *)
(***************************************************************************)
C16_IsPlaceholder(sec) == Lower(sec.heading) \in PlaceholderHeadings

RECURSIVE C16_Rendered(_)
\* what the sections are to contribute: nothing for a placeholder section,
\* a second-level heading and the body paragraphs for any other
C16_Rendered(sections) ==
    IF sections = <<>> THEN <<>>
    ELSE (IF C16_IsPlaceholder(Head(sections)) THEN <<>>
          ELSE <<Heading(2, Head(sections).heading)>>
                 \o [i \in 1..Len(Paras(Head(sections).body[1])) |->
                       Paragraph(Paras(Head(sections).body[1])[i])])
         \o C16_Rendered(Tail(sections))

\* the number of elements the image handling appended to the document
C16_ImagePartLen ==
    Cardinality({ i \in 1..Len(document) :
                     \/ i \in ImageOutcomes
                     \/ document[i] = PageBreak
                     \/ document[i] = Heading(2, ImageHeading) })

\* C16: in a document that create_word_document returned, the elements
\* between the title and the image part are, in section order, one
\* second-level heading and the body paragraphs of every section whose
\* heading is not a placeholder token, and nothing (neither heading nor
\* body paragraph) for a section whose heading is one.
C16_PlaceholderSectionEmitsNothing ==
    pc = "done" =>
       SubSeq(document, 2, Len(document) - C16_ImagePartLen)
         = C16_Rendered(article_json[1].sections)

(***************************************************************************)
(* C17.                                                                    *)
(***************************************************************************)
NoSteps == plan # None /\ plan[1].researchSteps = <<>>

\* C17: a run whose plan has no research step enters no search and keeps
\* collected empty and the image URL absent; from the loop it goes straight
\* to the composer and from the composed article to the renderer; when it
\* ends it returns the run result with one saved document whose last
\* element is the "not found" notice, unless the composer or the renderer
\* failed, the only places from which such a run can fail.
C17_NoStepsIsNoWork ==
    /\ [](NoSteps =>
            /\ Entries("search") = {}
            /\ collected = <<>>
            /\ image_url = None
            /\ pc # "search"
            /\ pc = "done" =>
                 /\ result = Returned("RunResult")
                 /\ invoked = <<"planner", "composer", "renderer">>
                 /\ Len(files) = 1 /\ filepath = Some(files[1])
                 /\ Last(document).el = "paragraph"
                 /\ Last(document).text = <<"Izobrazhenie ne najdeno.">>
            /\ pc = "failed" =>
                 /\ result.status = "raised"
                 /\ result.val \in { "composer", "makedirs", "renderer" })
    /\ [][NoSteps /\ pc = "loop" =>
            /\ pc' \in { "compose_call", "render" }
            /\ invoked' = <<"planner", "composer">>]_vars
    /\ [][NoSteps /\ pc = "render" /\ pc' # "failed" =>
            /\ pc' = "done"
            /\ invoked' = <<"planner", "composer", "renderer">>]_vars

C17_Witness ==
    /\ NoSteps
    /\ pc = "done"
    /\ ~USE_MOCK
    /\ collected = <<>>
    /\ invoked = <<"planner", "composer", "renderer">>
    /\ Last(document) = Paragraph(NotFoundText)

(***************************************************************************)
(* C18.                                                                    *)
(***************************************************************************)
\* the most steps one call or one loop iteration takes: entering it and
\* DefaultMaxRetries requests
StepsPerCall == DefaultMaxRetries + 1

\* how far the run has come: a number that every step of the run raises
Progress ==
    CASE pc = "plan" -> 0
      [] pc = "plan_call" -> wb.attempt
      [] pc = "loop" -> StepsPerCall * idx
      [] pc = "search" -> StepsPerCall * idx + wb.attempt
      [] pc = "compose_call" -> StepsPerCall * (Len(ResearchSteps) + 1) + wb.attempt
      [] pc = "render" -> StepsPerCall * (Len(ResearchSteps) + 2)
      [] pc \in { "done", "failed" } -> StepsPerCall * (Len(ResearchSteps) + 2) + 1

\* C18: every run ends.  While a planner, search or composer call runs, the
\* number of the request in flight is between 1 and 5, and at most one
\* search call is entered per step of the plan (at most 5*N search requests);
\* every step of the run raises Progress, which never exceeds
\* 6*(N+2)+1, so no call and no retry loop is entered again; a run that has
\* not ended can always take a step, every request returning or failing
\* (the renderer, which waits for nothing but the image download inside its
\* try statement, has the plan and the article it reads); and a run that
\* has ended holds the run result or the propagated exception.
C18_RunTerminates ==
    /\ [](/\ pc \in { "plan_call", "search", "compose_call" } =>
               wb.attempt \in 1..DefaultMaxRetries
          /\ Cardinality(Entries("planner")) <= 1
          /\ Cardinality(Entries("composer")) <= 1
          /\ Cardinality(Entries("search")) <= Len(ResearchSteps)
          /\ Progress <= StepsPerCall * (Len(ResearchSteps) + 2) + 1
          /\ pc \notin { "render", "done", "failed" } => ENABLED Next
          /\ pc = "render" => plan # None /\ article_json # None
          /\ pc = "done" => result = Returned("RunResult")
          /\ pc = "failed" => result.status = "raised")
    /\ [][Progress' > Progress]_vars
    /\ [][(pc \in { "plan_call", "search", "compose_call" } /\ pc' = pc) =>
            (wb'.attempt = wb.attempt + 1 /\ idx' = idx)]_vars

C18_Witness ==
    /\ pc = "done"
    /\ ~USE_MOCK
    /\ Len(ResearchSteps) = 2
    /\ Len(collected) = 2
    /\ collected[1].status = "error" /\ collected[1].error[1].at = DefaultMaxRetries
    /\ collected[2].status = "error" /\ collected[2].error[1].at = DefaultMaxRetries

(***************************************************************************)
(* C19.                                                                    *)
(***************************************************************************)
\* the workers whose run or dialog has not ended
InFlight == { i \in 1..Len(workers) : workers[i].pc # "end" }

\* C19: at most one worker is in flight; the button is disabled exactly
\* while on_generate is about to start a worker or a worker is in flight;
\* a worker is started only with the button already disabled and a
\* non-empty topic, and none is started or prepared while the button is
\* disabled and a worker is in flight; a worker that ends, after a result
\* as after an exception, leaves the button enabled, and a worker in
\* flight can always take its next step; a press with an empty topic shows
\* the warning, starts nothing and leaves the button enabled.
C19_OneRunAndButtonRestored ==
    /\ [](/\ Cardinality(InFlight) <= 1
          /\ generate_btn = "disabled" <=> (pc = "on_generate" \/ InFlight # {})
          /\ pc = "on_generate" => InFlight = {}
          /\ \A i \in 1..Len(workers) : workers[i].topic # <<>>
          /\ InFlight # {} => ENABLED (WorkerReturns \/ WorkerRaises \/ WorkerFinally))
    /\ [][Len(workers') > Len(workers) =>
            /\ generate_btn = "disabled" /\ generate_btn' = "disabled"
            /\ Len(workers') = Len(workers) + 1
            /\ InFlight = {}]_vars
    /\ [][(generate_btn = "disabled" /\ InFlight # {}) =>
            (Len(workers') = Len(workers) /\ pc' = "mainloop")]_vars
    /\ [][\A i \in InFlight :
            workers'[i].pc = "end" =>
              /\ workers[i].pc \in { "showinfo", "showerror" }
              /\ generate_btn' = "normal"]_vars
    /\ [][(pc = "mainloop" /\ Strip(topic_var) = <<>> /\ topic_var' = topic_var) =>
            /\ Len(workers') = Len(workers)
            /\ pc' = "mainloop"
            /\ generate_btn' = "normal" \/ InFlight' # {}
            /\ (generate_btn = "normal" /\ messagebox' # messagebox) =>
                 (messagebox' = Append(messagebox, "warning")
                    /\ generate_btn' = "normal")]_vars

C19_Witness ==
    /\ Len(workers) = 2
    /\ workers[1].pc = "end"
    /\ workers[2].pc = "showinfo"
    /\ generate_btn = "disabled"
    /\ messagebox = <<"warning", "error", "info">>

====
